---- MODULE Spec2Model ----
(***************************************************************************)
(* The registration flow of the staff-onboarding bot: the aiogram handlers *)
(* of telegram_bot/handlers (start.py, registration.py), the SQL helpers   *)
(* of telegram_bot/database.py they call, and the inline keyboards.        *)
(*                                                                         *)
(* Tables are sequences of rows; a row's primary key is its index (the     *)
(* flow never deletes a row, and a row the admin site deletes leaves its   *)
(* key unused, with -1 in its key columns).  Strings are sequences of      *)
(* tokens, so that                                                          *)
(* the string operations of the code (split, strip, replace, f-strings)    *)
(* are computed and not assumed.  NULL is the SQL NULL / Python None of a  *)
(* nullable string column, 0 the NULL of a key column.                     *)
(***************************************************************************)
EXTENDS Integers, Sequences, FiniteSets, TLC

VARIABLES
    questions,   \* table bot_admin_question (written by the admin site only)
    users,       \* table bot_admin_userprofile
    responses,   \* table bot_admin_userresponse
    apps,        \* table bot_admin_staffapplication
    fsm,         \* aiogram FSM storage: per chat, the state and its data
    out,         \* per chat, the messages emitted since the chat was idle
    now,         \* the wall clock read by NOW() and datetime.now()
    tasks,       \* handler coroutines suspended at an await of network I/O
    last,        \* the update dispatched last and the handler it reached
    walk,        \* a traversal of the catalog: the questions returned so far
    failures,    \* the number of statements at which the storage has raised
    race         \* the store a busy period began with, and its updates

vars == <<questions, users, responses, apps, fsm, out, now, tasks, last, walk,
          failures, race>>

----------------------------------------------------------------------------
(* Bounds of the model *)

\* The clock takes the values 0..MaxNow.
MaxNow == 1
\* At most MaxBurst updates arrive from the moment a handler is suspended
\* to the moment none is (a busy period).
MaxBurst == 2
\* A handler performs at most MaxWrites INSERT/UPDATE statements.
MaxWrites == 4
\* The storage raises at most MaxFailures times.
MaxFailures == 1
\* The catalogs that are traversed hold at most MaxQuestions questions, of
\* the orders 0..MaxOrder.
MaxQuestions == 3
MaxOrder == 2
\* The admin site deletes a user only while the table of users holds fewer
\* than MaxUsers rows, deleted ones included.
MaxUsers == 2
\* The choices of a choice question are a string of at most MaxChoiceLen
\* tokens.
MaxChoiceLen == 3
MaxOverlap == 3

\* Telegram ids of the chats that write to the bot.
Applicants == {71, 72}

\* The chat whose flow is followed alone.
Solo == {71}

NULL == <<"NULL">>

\* Free-text message bodies (Telegram delivers no empty text message).
Texts == {<<"a">>, <<"b">>}

----------------------------------------------------------------------------
(* Strings *)

RECURSIVE StrReplace(_, _)
\* str.replace(tok, ""): every occurrence of the token is removed.
StrReplace(s, tok) ==
    IF s = <<>> THEN <<>>
    ELSE IF Head(s) = tok THEN StrReplace(Tail(s), tok)
         ELSE <<Head(s)>> \o StrReplace(Tail(s), tok)

RECURSIVE StrSplit(_, _)
\* str.split(sep): the pieces between the separators, empty pieces kept.
StrSplit(s, sep) ==
    IF \A i \in 1..Len(s) : s[i] # sep THEN <<s>>
    ELSE LET i == CHOOSE j \in 1..Len(s) :
                      s[j] = sep /\ \A k \in 1..(j - 1) : s[k] # sep
         IN <<SubSeq(s, 1, i - 1)>> \o StrSplit(SubSeq(s, i + 1, Len(s)), sep)

RECURSIVE StrStrip(_)
\* str.strip(): leading and trailing blanks removed.
StrStrip(s) ==
    IF s = <<>> THEN s
    ELSE IF Head(s) = " " THEN StrStrip(Tail(s))
    ELSE IF s[Len(s)] = " " THEN StrStrip(SubSeq(s, 1, Len(s) - 1))
    ELSE s

----------------------------------------------------------------------------
(* The question catalog *)

Q(ord, type, field, choices, active) ==
    [order |-> ord, question_type |-> type, field_name |-> field,
     choices |-> choices, is_active |-> active]

\* The scenario of the specification: name, passport photo, marital status.
CatScenario ==
    << Q(1, "text",   "full_name",      <<>>, TRUE),
       Q(2, "photo",  "passport_main",  <<>>, TRUE),
       Q(3, "choice", "marital_status", <<"M", ",", " ", "S">>, TRUE) >>

\* Two active questions that share an order, and a deactivated one.
CatTies ==
    << Q(1, "text", "phone",   <<>>, TRUE),
       Q(1, "text", "email",   <<>>, TRUE),
       Q(2, "text", "address", <<>>, FALSE) >>

\* Field names outside the whitelist, a column of the table among them.
CatUnmapped ==
    << Q(0, "text",  "status",   <<>>, TRUE),
       Q(5, "photo", "",         <<>>, TRUE),
       Q(7, "text",  "nickname", <<>>, TRUE) >>

\* The identity-document question first, an informational question last.
CatSnils ==
    << Q(2, "photo", "snils", <<>>, TRUE),
       Q(4, "info",  "",      <<>>, TRUE) >>

\* No active question.
CatEmpty == << Q(1, "text", "phone", <<>>, FALSE) >>

\* One question, a text question.
CatPhone == << Q(1, "text", "phone", <<>>, TRUE) >>

Catalogs == {CatScenario, CatTies, CatUnmapped, CatSnils, CatEmpty}

QIds == 1..Len(questions)

ActiveQuestions == {q \in QIds : questions[q].is_active}

\* ORDER BY "order" LIMIT 1 over a set of rows: a row of the least order.
\* SQL leaves the choice among rows of equal order open; pref stands for
\* the row the executor happens to return first.
FirstByOrder(cands, pref) ==
    LET least == {q \in cands : \A r \in cands :
                                   questions[q].order <= questions[r].order}
    IN IF least = {} THEN 0
       ELSE IF pref \in least THEN pref
       ELSE CHOOSE q \in least : \A r \in least : q <= r

get_question_by_id(question_id) ==
    IF question_id \in QIds THEN question_id ELSE 0

get_next_question_at_or_after(current_order, pref) ==
    FirstByOrder({q \in ActiveQuestions : questions[q].order >= current_order},
                 pref)

get_next_question(current_order, pref) ==
    FirstByOrder({q \in ActiveQuestions : questions[q].order > current_order},
                 pref)

get_first_question_any_status(pref) == FirstByOrder(QIds, pref)

get_first_question(pref) == FirstByOrder(ActiveQuestions, pref)

----------------------------------------------------------------------------
(* The stores.  S is the record of everything a handler reads and writes:  *)
(* [users, responses, apps, fsm, out].                                      *)

\* The columns of bot_admin_staffapplication apart from the key and the
\* created_at/updated_at stamps.
AppFields ==
    {"full_name", "address", "phone", "email", "passport_main",
     "passport_registration", "snils", "inn", "marital_status", "children",
     "emergency_contact", "additional_info"}

AppColumns == {"status", "position", "completed_at"} \cup AppFields

\* cur.fetchone() of a SELECT that matches the rows with the pks in found:
\* the pk of the first row, 0 if there is none.
FetchOne(found) ==
    IF found = {} THEN 0 ELSE CHOOSE i \in found : \A j \in found : i <= j

\* row with the columns named by kw set to kw's values (UPDATE ... SET).
SetColumns(row, kw) ==
    [c \in DOMAIN row |-> IF c \in DOMAIN kw THEN kw[c] ELSE row[c]]

get_user(S, telegram_id) ==
    FetchOne({i \in 1..Len(S.users) : S.users[i].telegram_id = telegram_id})

get_or_create_user_insert_only(S, telegram_id) ==
    [S EXCEPT !.users =
        Append(@, [telegram_id |-> telegram_id,
                   current_question_id |-> 0,
                   is_team_member |-> FALSE,
                   is_registration_complete |-> FALSE])]

get_or_create_user(S, telegram_id) ==
    IF get_user(S, telegram_id) # 0 THEN S
    ELSE [S EXCEPT !.users =
             Append(@, [telegram_id |-> telegram_id,
                        current_question_id |-> 0,
                        is_team_member |-> FALSE,
                        is_registration_complete |-> FALSE])]

update_user_by_pk(S, telegram_id, kw) ==
    [S EXCEPT !.users =
        [i \in 1..Len(@) |->
            IF i = telegram_id THEN SetColumns(@[i], kw) ELSE @[i]]]

update_user(S, telegram_id, kw) ==
    [S EXCEPT !.users =
        [i \in 1..Len(@) |->
            IF @[i].telegram_id = telegram_id
            THEN SetColumns(@[i], kw) ELSE @[i]]]

set_current_question_by_pk(S, telegram_id, question_id) ==
    [S EXCEPT !.users =
        [i \in 1..Len(@) |->
            IF i = telegram_id
            THEN [@[i] EXCEPT !.current_question_id = question_id]
            ELSE @[i]]]

set_current_question_of_all(S, telegram_id, question_id) ==
    [S EXCEPT !.users =
        [i \in 1..Len(@) |->
            [@[i] EXCEPT !.current_question_id = question_id]]]

set_current_question(S, telegram_id, question_id) ==
    [S EXCEPT !.users =
        [i \in 1..Len(@) |->
            IF @[i].telegram_id = telegram_id
            THEN [@[i] EXCEPT !.current_question_id = question_id]
            ELSE @[i]]]

save_response_insert_only(S, user_id, question_id, text_answer, photo_path) ==
    [S EXCEPT !.responses =
        Append(@, [user_id |-> user_id, question_id |-> question_id,
                   text_answer |-> text_answer, photo |-> photo_path])]

save_response_given_column(S, user_id, question_id, text_answer, photo_path) ==
    LET Match(r) == r.user_id = user_id /\ r.question_id = question_id
    IN IF \E i \in 1..Len(S.responses) : Match(S.responses[i])
       THEN [S EXCEPT !.responses =
                [i \in 1..Len(@) |->
                    IF ~Match(@[i]) THEN @[i]
                    ELSE IF photo_path = NULL
                    THEN [@[i] EXCEPT !.text_answer = text_answer]
                    ELSE [@[i] EXCEPT !.photo = photo_path]]]
       ELSE [S EXCEPT !.responses =
                Append(@, [user_id |-> user_id, question_id |-> question_id,
                           text_answer |-> text_answer,
                           photo |-> photo_path])]

save_response(S, user_id, question_id, text_answer, photo_path) ==
    LET Match(r) == r.user_id = user_id /\ r.question_id = question_id
        existing == FetchOne({i \in 1..Len(S.responses) :
                                 Match(S.responses[i])})
    IN IF existing # 0
       THEN [S EXCEPT !.responses =
                [i \in 1..Len(@) |->
                    IF Match(@[i])
                    THEN [@[i] EXCEPT !.text_answer = text_answer,
                                      !.photo = photo_path]
                    ELSE @[i]]]
       ELSE [S EXCEPT !.responses =
                Append(@, [user_id |-> user_id, question_id |-> question_id,
                           text_answer |-> text_answer,
                           photo |-> photo_path])]

get_application(S, user_id) ==
    FetchOne({i \in 1..Len(S.apps) : S.apps[i].user_id = user_id})

get_or_create_application(S, user_id) ==
    IF get_application(S, user_id) # 0 THEN S
    ELSE [S EXCEPT !.apps =
             Append(@, [c \in AppColumns \cup {"user_id"} |->
                           IF c = "user_id" THEN user_id
                           ELSE IF c = "status" THEN <<"in_progress">>
                           ELSE NULL])]

update_application(S, user_id, kw) ==
    [S EXCEPT !.apps =
        [i \in 1..Len(@) |->
            IF @[i].user_id = user_id THEN SetColumns(@[i], kw) ELSE @[i]]]

complete_application_status_only(S, user_id) ==
    [S EXCEPT !.apps =
        [i \in 1..Len(@) |->
            IF @[i].user_id = user_id
            THEN [@[i] EXCEPT !.status = <<"completed">>]
            ELSE @[i]]]

complete_application(S, user_id) ==
    [S EXCEPT !.apps =
        [i \in 1..Len(@) |->
            IF @[i].user_id = user_id
            THEN [@[i] EXCEPT !.status = <<"completed">>,
                              !.completed_at = <<ToString(now)>>]
            ELSE @[i]]]

valid_fields_and_status == AppFields \cup {"status"}

\* The whitelist of save_to_application.
valid_fields == AppFields

\* TRUE iff save_to_application issues its UPDATE.
WritesApplication(field_name) ==
    field_name # "" /\ field_name \in valid_fields

save_to_application(S, user_id, field_name, value) ==
    IF WritesApplication(field_name)
    THEN update_application(S, user_id, [c \in {field_name} |-> value])
    ELSE S

----------------------------------------------------------------------------
(* The FSM storage (aiogram MemoryStorage, keyed by chat) and the sink *)

NoData == [current_question_id |-> 0, current_question_order |-> 0,
           position |-> NULL]

state_clear(S, chat) ==
    [S EXCEPT !.fsm[chat] = [state |-> "none", data |-> NoData]]

state_set_state(S, chat, st) == [S EXCEPT !.fsm[chat].state = st]

state_update_data_dropped(S, chat, kw) == S

state_update_data(S, chat, kw) ==
    [S EXCEPT !.fsm[chat].data = SetColumns(@, kw)]

Emit(S, chat, m) == [S EXCEPT !.out[chat] = Append(@, m)]

Msg(kind) == [kind |-> kind, question |-> 0, buttons |-> <<>>]

\* keyboards/inline.py: one button per comma-separated choice, its
\* callback data the prefix followed by the label.
get_choices_keyboard(choices) ==
    LET choices_list == StrSplit(choices, ",")
    IN [i \in 1..Len(choices_list) |->
           [text |-> StrStrip(choices_list[i]),
            callback_data |-> <<"choice_">> \o StrStrip(choices_list[i])]]

\* send_question: the text (or the photo with caption), with the selector
\* of a choice question that has choices.
send_question(S, chat, question) ==
    Emit(S, chat,
         [kind |-> "question", question |-> question,
          buttons |->
              IF questions[question].question_type = "choice"
                 /\ questions[question].choices # <<>>
              THEN get_choices_keyboard(questions[question].choices)
              ELSE <<>>])

----------------------------------------------------------------------------
(* Handlers.  A handler is a coroutine: k is its frame (the update it      *)
(* handles, its position pc and its locals), and a step runs it from pc up *)
(* to its next INSERT/UPDATE statement inclusive and on to the point where *)
(* it awaits network I/O ("yield"), returns ("done"), is about to issue a  *)
(* further statement ("cont") or is ended by an exception ("failed").  The *)
(* FSM storage is in memory: awaiting it does not suspend the coroutine.   *)
(* k.failAt numbers the INSERT/UPDATE statement of this handler at which   *)
(* the storage raises (0: none does); k.pref decides ORDER BY ties.        *)

Frame(h, u, pref, failAt) ==
    [h |-> h, pc |-> "start", from |-> u.from, text |-> u.text,
     pref |-> pref, failAt |-> failAt, writes |-> 0, task |-> 0,
     question_id |-> 0, user_id |-> 0, value |-> NULL, next |-> 0]

Ret(S, k, pc, st) == [S |-> S, k |-> [k EXCEPT !.pc = pc], st |-> st]

\* The statement k is about to issue is the one at which the storage raises.
Fails(k) == k.writes + 1 = k.failAt

Wrote(k) == [k EXCEPT !.writes = @ + 1]

Raise(S, k) == Ret(S, k, "raised", "failed")

\* The user has been through the whole flow.
AlreadyCompleteIfMember(user_data) ==
    user_data.is_registration_complete /\ user_data.is_team_member = FALSE

AlreadyComplete(user_data) == user_data.is_registration_complete

\* start.py, cmd_start
cmd_start(S, k) ==
    CASE k.pc = "start" ->
        LET S1 == state_clear(S, k.from)
            creates == get_user(S1, k.from) = 0
            S2 == get_or_create_user(S1, k.from)
            user_data == S2.users[get_user(S2, k.from)]
            k2 == IF creates THEN Wrote(k) ELSE k
        IN IF creates /\ Fails(k) THEN Raise(S1, k)
           ELSE IF AlreadyComplete(user_data)
           THEN Ret(Emit(S2, k.from, Msg("already_completed")), k2,
                    "end", "done")
           ELSE Ret(Emit(S2, k.from, Msg("welcome")), k2, "ask", "yield")
      [] k.pc = "ask" ->
        Ret(Emit(S, k.from, Msg("ask_team_member")), k, "set_state", "yield")
      [] k.pc = "set_state" ->
        Ret(state_set_state(S, k.from, "asking_team_member"), k,
            "end", "done")

\* registration.py, process_team_member
process_team_member(S, k) ==
    CASE k.pc = "start" -> Ret(S, k, "update", "yield")
      [] k.pc = "update" ->
        LET is_team_member == k.text = <<"team_yes">>
            S1 == update_user(S, k.from,
                              [c \in {"is_team_member"} |-> is_team_member])
        IN IF Fails(k) THEN Raise(S, k)
           ELSE IF get_user(S, k.from) = 0 THEN Raise(S, Wrote(k))
           ELSE IF is_team_member
           THEN Ret(Emit(S1, k.from, Msg("ask_position")), Wrote(k),
                    "set_state", "yield")
           ELSE Ret(Emit(S1, k.from, Msg("not_member")), Wrote(k),
                    "clear", "yield")
      [] k.pc = "set_state" ->
        Ret(state_set_state(S, k.from, "asking_position"), k, "end", "done")
      [] k.pc = "clear" -> Ret(state_clear(S, k.from), k, "end", "done")

\* registration.py, process_position
process_position(S, k) ==
    CASE k.pc = "start" ->
        LET user == get_user(S, k.from)
        IN IF user = 0 THEN Ret(S, k, "mission", "cont")
           ELSE IF get_application(S, user) # 0
           THEN Ret(S, [k EXCEPT !.user_id = user], "position", "cont")
           ELSE IF Fails(k) THEN Raise(S, k)
           ELSE Ret(get_or_create_application(S, user),
                    [Wrote(k) EXCEPT !.user_id = user], "position", "cont")
      [] k.pc = "position" ->
        IF Fails(k) THEN Raise(S, k)
        ELSE Ret(update_application(S, k.user_id,
                                    [c \in {"position"} |-> k.text]),
                 Wrote(k), "mission", "cont")
      [] k.pc = "mission" ->
        Ret(Emit(state_update_data(S, k.from,
                                   [c \in {"position"} |-> k.text]),
                 k.from, Msg("mission")),
            k, "first", "yield")
      [] k.pc = "first" ->
        LET first_question == get_first_question(k.pref)
            S1 == set_current_question(S, k.from, first_question)
            S2 == state_update_data(S1, k.from,
                      [current_question_id |-> first_question,
                       current_question_order |->
                           questions[first_question].order])
        IN IF first_question = 0
           THEN Ret(Emit(S, k.from, Msg("no_questions")), k, "clear", "yield")
           ELSE IF Fails(k) THEN Raise(S, k)
           ELSE Ret(send_question(S2, k.from, first_question), Wrote(k),
                    "set_state", "yield")
      [] k.pc = "set_state" ->
        Ret(state_set_state(S, k.from, "answering_questions"), k,
            "end", "done")
      [] k.pc = "clear" -> Ret(state_clear(S, k.from), k, "end", "done")

\* The check that sends the goal message before the next question.
GoalAfterAnyField(question) == TRUE

GoalAfter(question) == questions[question].field_name = "full_name"

\* registration.py, move_to_next_question (the tail of the three answer
\* handlers; k.question_id is the handler's current_question)
move_to_next_question(S, k) ==
    CASE k.pc = "move" ->
        LET current_question == questions[k.question_id]
            next_question == get_next_question(current_question.order, k.pref)
            k1 == [k EXCEPT !.next = next_question]
        IN IF next_question = 0 THEN Ret(S, k1, "complete", "cont")
           ELSE IF GoalAfter(k.question_id)
           THEN Ret(Emit(S, k.from, Msg("goal")), k1, "values", "yield")
           ELSE Ret(S, k1, "values", "cont")
      [] k.pc = "values" ->
        IF questions[k.next].field_name = "snils"
        THEN Ret(Emit(S, k.from, Msg("values")), k, "advance", "yield")
        ELSE Ret(S, k, "advance", "cont")
      [] k.pc = "advance" ->
        LET S1 == set_current_question(S, k.from, k.next)
            S2 == state_update_data(S1, k.from,
                      [current_question_id |-> k.next,
                       current_question_order |-> questions[k.next].order])
        IN IF Fails(k) THEN Raise(S, k)
           ELSE Ret(send_question(S2, k.from, k.next), Wrote(k),
                    "end", "done")
      [] k.pc = "complete" ->
        IF Fails(k) THEN Raise(S, k)
        ELSE IF get_user(S, k.from) = 0 THEN Raise(S, Wrote(k))
        ELSE Ret(update_user(S, k.from,
                             [is_registration_complete |-> TRUE,
                              current_question_id |-> 0]),
                 Wrote(k), "complete_application", "cont")
      [] k.pc = "complete_application" ->
        LET user == get_user(S, k.from)
        IN IF user = 0
           THEN Ret(Emit(S, k.from, Msg("completion")), k, "clear", "yield")
           ELSE IF Fails(k) THEN Raise(S, k)
           ELSE Ret(Emit(complete_application(S, user), k.from,
                         Msg("completion")),
                    Wrote(k), "clear", "yield")
      [] k.pc = "clear" -> Ret(state_clear(S, k.from), k, "end", "done")

\* The lookups that open the three answer handlers: the question of the
\* session, then the user.  A failed lookup emits the start-over message
\* err and clears the session after it.
Lookup(S, k, checks_id) ==
    LET question_id == S.fsm[k.from].data.current_question_id
        question == get_question_by_id(question_id)
        user == get_user(S, k.from)
    IN [question_id |-> question_id, question |-> question, user |-> user,
        err |-> IF checks_id /\ question_id = 0 THEN "error_start_over"
                ELSE IF question = 0 THEN "question_not_found"
                ELSE IF user = 0 THEN "user_not_found"
                ELSE "",
        k |-> [k EXCEPT !.question_id = question_id, !.user_id = user]]

\* save_to_application as a step of an answer handler, then its successor.
SaveToApplication(S, k, pc, st) ==
    LET field_name == questions[k.question_id].field_name
    IN IF ~WritesApplication(field_name) THEN Ret(S, k, pc, st)
       ELSE IF Fails(k) THEN Raise(S, k)
       ELSE Ret(save_to_application(S, k.user_id, field_name, k.value),
                Wrote(k), pc, st)

\* registration.py, process_photo_answer
process_photo_answer(S, k) ==
    CASE k.pc = "start" ->
        LET l == Lookup(S, k, TRUE)
        IN IF l.err # ""
           THEN Ret(Emit(S, k.from, Msg(l.err)), k, "clear", "yield")
           ELSE Ret(S, l.k, "download", "yield")
      [] k.pc = "download" ->
        LET field_name == questions[k.question_id].field_name
            filename == <<ToString(k.from), "_", ToString(now), ".jpg">>
            relative_path == <<"applications/", field_name, "/">> \o filename
        IN Ret(S, [k EXCEPT !.value = relative_path], "save", "yield")
      [] k.pc = "save" ->
        IF Fails(k) THEN Raise(S, k)
        ELSE Ret(save_response(S, k.user_id, k.question_id, NULL, k.value),
                 Wrote(k), "application", "cont")
      [] k.pc = "application" -> SaveToApplication(S, k, "move", "cont")
      [] OTHER -> move_to_next_question(S, k)

\* The check that turns a text away.
RequiresPhotoNever(question) == FALSE

RequiresPhotoOrChoice(question) ==
    questions[question].question_type \in {"photo", "choice"}

RequiresPhoto(question) == questions[question].question_type = "photo"

\* registration.py, process_text_answer
process_text_answer(S, k) ==
    CASE k.pc = "start" ->
        LET l == Lookup(S, k, TRUE)
            k1 == [l.k EXCEPT !.value = k.text]
        IN IF l.err \in {"error_start_over", "question_not_found"}
           THEN Ret(Emit(S, k.from, Msg(l.err)), k, "clear", "yield")
           ELSE IF RequiresPhoto(l.question)
           THEN Ret(Emit(S, k.from, Msg("send_photo_please")), k,
                    "end", "done")
           ELSE IF l.err # ""
           THEN Ret(Emit(S, k.from, Msg(l.err)), k, "clear", "yield")
           ELSE IF Fails(k) THEN Raise(S, k)
           ELSE Ret(save_response(S, l.user, l.question_id, k.text, NULL),
                    Wrote(k1), "application", "cont")
      [] k.pc = "application" -> SaveToApplication(S, k, "move", "cont")
      [] OTHER -> move_to_next_question(S, k)

\* registration.py, process_choice_answer
process_choice_answer(S, k) ==
    CASE k.pc = "start" -> Ret(S, k, "read", "yield")
      [] k.pc = "read" ->
        LET l == Lookup(S, k, FALSE)
            answer == StrReplace(k.text, "choice_")
            k1 == [l.k EXCEPT !.value = answer]
        IN IF l.err # ""
           THEN Ret(Emit(S, k.from, Msg(l.err)), k, "clear", "yield")
           ELSE IF Fails(k) THEN Raise(S, k)
           ELSE Ret(save_response(S, l.user, l.question_id, answer, NULL),
                    Wrote(k1), "application", "cont")
      [] k.pc = "application" -> SaveToApplication(S, k, "move", "yield")
      [] OTHER -> move_to_next_question(S, k)

Step(S, k) ==
    CASE k.h = "cmd_start" -> cmd_start(S, k)
      [] k.h = "process_team_member" -> process_team_member(S, k)
      [] k.h = "process_position" -> process_position(S, k)
      [] k.h = "process_photo_answer" -> process_photo_answer(S, k)
      [] k.h = "process_text_answer" -> process_text_answer(S, k)
      [] k.h = "process_choice_answer" -> process_choice_answer(S, k)

RECURSIVE RunToYield(_, _)
\* The coroutine runs until it awaits network I/O, returns or raises.
RunToYield(S, k) ==
    LET r == Step(S, k)
    IN IF r.st = "cont" THEN RunToYield(r.S, r.k) ELSE r

RECURSIVE RunToEnd(_, _)
\* The coroutine runs alone, to its return or to the exception.
RunToEnd(S, k) ==
    LET r == Step(S, k)
    IN IF r.st \in {"cont", "yield"} THEN RunToEnd(r.S, r.k) ELSE r

----------------------------------------------------------------------------
(* The dispatcher *)

\* The callback data of the buttons the bot renders: the two of the
\* team-member keyboard and those of the selectors of the choice questions.
ButtonData ==
    {<<"team_yes">>, <<"team_no">>} \cup
    UNION {{get_choices_keyboard(questions[q].choices)[i].callback_data :
               i \in 1..Len(get_choices_keyboard(questions[q].choices))} :
           q \in {r \in QIds : questions[r].question_type = "choice"}}

Update(type, from, text) == [type |-> type, from |-> from, text |-> text]

\* bot.py includes start.router before registration.router, and a router
\* tries its handlers in the order of their definition: the handler the
\* update reaches in FSM state st, "" if none.
Dispatch(u, st) ==
    IF u.type = "start" THEN "cmd_start"
    ELSE IF u.type = "callback"
    THEN IF st = "asking_team_member"
            /\ u.text \in {<<"team_yes">>, <<"team_no">>}
         THEN "process_team_member"
         ELSE IF st = "answering_questions" THEN "process_choice_answer"
         ELSE ""
    ELSE IF st = "asking_position" THEN "process_position"
    ELSE IF st = "answering_questions"
    THEN IF u.type = "photo" THEN "process_photo_answer"
         ELSE "process_text_answer"
    ELSE ""

AnswerHandlers ==
    {"process_photo_answer", "process_text_answer", "process_choice_answer"}

Store == [users |-> users, responses |-> responses, apps |-> apps,
          fsm |-> fsm, out |-> out]

\* The tasks of chat that are suspended.
TasksOf(chat) == {k \in tasks : k.from = chat}

\* The log of a chat starts afresh with an update that finds the chat idle.
Fresh(chat) ==
    IF TasksOf(chat) = {} THEN [Store EXCEPT !.out[chat] = <<>>] ELSE Store

Install(r) ==
    /\ users' = r.S.users
    /\ responses' = r.S.responses
    /\ apps' = r.S.apps
    /\ fsm' = r.S.fsm
    /\ out' = r.S.out

\* No busy period is on record.
NoRace == [base |-> <<>>, now |-> 0, updates |-> <<>>]

\* What is remembered of the step taken last: the handler, its update and
\* its locals, how it ended, and the number of response rows it found.
Event(k, st) ==
    [h |-> k.h, from |-> k.from, text |-> k.text, question_id |-> k.question_id,
     value |-> k.value, next |-> k.next, writes |-> k.writes, st |-> st,
     rows |-> Len(responses)]

\* The update u is dispatched and its handler runs to its end before any
\* other update is looked at.  The storage raises at statement failAt.
Handle(u, pref, failAt) ==
    LET h == Dispatch(u, fsm[u.from].state)
        r == RunToEnd(Fresh(u.from), Frame(h, u, pref, failAt))
    IN /\ tasks = {}
       /\ h # ""
       /\ failAt # 0 => r.st = "failed"
       /\ Install(r)
       /\ last' = Event(r.k, r.st)
       /\ failures' = failures + (IF failAt = 0 THEN 0 ELSE 1)
       /\ race' = NoRace
       /\ UNCHANGED <<questions, now, tasks, walk>>

\* The record of the busy period after a step that leaves the tasks in
\* busy: a period of one update is forgotten when it ends.
Period(r, busy) ==
    IF busy = {} /\ Len(r.updates) < 2 THEN NoRace ELSE r

\* The update u is dispatched while other handlers may be suspended; its
\* handler runs to its first await of network I/O.  The task gets the least
\* number that no suspended task has.  An update that finds no handler
\* suspended opens a busy period.
Deliver(u, pref) ==
    LET h == Dispatch(u, fsm[u.from].state)
        id == CHOOSE n \in 1..(MaxBurst + 1) :
                  /\ \A k \in tasks : k.task # n
                  /\ \A m \in 1..(n - 1) : \E k \in tasks : k.task = m
        r == RunToYield(Fresh(u.from),
                        [Frame(h, u, pref, 0) EXCEPT !.task = id])
    IN /\ h # ""
       /\ tasks = {} \/ Len(race.updates) < MaxBurst
       /\ Install(r)
       /\ tasks' = IF r.st = "yield" THEN tasks \cup {r.k} ELSE tasks
       /\ last' = Event(r.k, r.st)
       /\ race' = Period(IF tasks = {}
                         THEN [base |-> Store, now |-> now,
                               updates |-> <<[u |-> u, pref |-> pref]>>]
                         ELSE [race EXCEPT
                                  !.updates =
                                      Append(@, [u |-> u, pref |-> pref])],
                         tasks')
       /\ UNCHANGED <<questions, now, walk, failures>>

\* The event loop resumes a suspended handler, up to its next await.
Resume(k) ==
    LET r == RunToYield(Store, k)
    IN /\ Install(r)
       /\ tasks' = IF r.st = "yield" THEN (tasks \ {k}) \cup {r.k}
                   ELSE tasks \ {k}
       /\ last' = Event(r.k, r.st)
       /\ race' = Period(race, tasks')
       /\ UNCHANGED <<questions, now, walk, failures>>

Tick ==
    /\ now < MaxNow
    /\ now' = now + 1
    /\ UNCHANGED <<questions, users, responses, apps, fsm, out, tasks, last, walk,
                   failures, race>>

\* The rows an ORDER BY "order" may return first although another row has
\* the same order; 0 stands for the row of the least pk.
Prefs ==
    {0} \cup {q \in QIds : \E r \in QIds \ {q} :
                              questions[r].order = questions[q].order}

StartCommand(chat) ==
    \E u \in {Update("start", chat, NULL)} : Handle(u, 0, 0)

TextMessage(chat) ==
    \E x \in Texts, pref \in Prefs : Handle(Update("text", chat, x), pref, 0)

PhotoMessage(chat) ==
    \E pref \in Prefs : Handle(Update("photo", chat, NULL), pref, 0)

CallbackQuery(chat) ==
    \E d \in ButtonData, pref \in Prefs :
        Handle(Update("callback", chat, d), pref, 0)

\* The state of a fresh deployment, but for the catalog.
Fresh0 ==
    /\ users = <<>>
    /\ responses = <<>>
    /\ apps = <<>>
    /\ fsm = [c \in Applicants |-> [state |-> "none", data |-> NoData]]
    /\ out = [c \in Applicants |-> <<>>]
    /\ now = 0
    /\ tasks = {}
    /\ last = [h |-> "", from |-> 0, text |-> NULL, question_id |-> 0,
               value |-> NULL, next |-> 0, writes |-> 0, st |-> "",
               rows |-> 0]
    /\ walk = [seq |-> <<>>, done |-> FALSE]
    /\ failures = 0
    /\ race = NoRace

Init == questions \in Catalogs /\ Fresh0

\* One chat, its updates handled one after the other.
Next ==
    \/ \E chat \in Solo : StartCommand(chat)
    \/ \E chat \in Solo : TextMessage(chat)
    \/ \E chat \in Solo : PhotoMessage(chat)
    \/ \E chat \in Solo : CallbackQuery(chat)
    \/ Tick

Spec == Init /\ [][Next]_vars

\* The updates a chat can send.
UpdatesOf(chat) ==
    {Update("start", chat, NULL), Update("photo", chat, NULL)}
    \cup {Update("text", chat, x) : x \in Texts}
    \cup {Update("callback", chat, d) : d \in ButtonData}

\* An update whose handler is ended by the storage raising at one of its
\* INSERT/UPDATE statements; what was committed before stays committed.
FailingUpdate(chat) ==
    /\ failures < MaxFailures
    /\ \E u \in UpdatesOf(chat), pref \in Prefs, failAt \in 1..MaxWrites :
          Handle(u, pref, failAt)

\* One chat, its updates handled one after the other, the storage failing
\* at any statement.
NextFail ==
    \/ Next
    \/ \E chat \in Solo : FailingUpdate(chat)

InitFail == questions \in {CatSnils} /\ Fresh0

SpecFail == InitFail /\ [][NextFail]_vars

\* An answer of the chat arrives while the handlers of its earlier answers
\* may be suspended (the dispatcher handles updates as tasks and holds no
\* lock per chat).
Arrive(chat) ==
    \E u \in UpdatesOf(chat), pref \in Prefs :
        /\ Dispatch(u, fsm[chat].state) \in AnswerHandlers
        /\ Deliver(u, pref)

Wake == \E k \in tasks : Resume(k)

\* One chat, the handlers of its answers interleaved at their awaits of
\* network I/O; an update that finds no handler suspended may also be
\* handled to its end.
NextConc ==
    \/ Next
    \/ \E chat \in Solo : Arrive(chat)
    \/ Wake

InitConc == questions \in {CatSnils} /\ Fresh0

SpecConc == InitConc /\ [][NextConc]_vars

\* A start command of a chat arrives while the handlers of earlier start
\* commands, of this chat or of another, may be suspended.
Begin(chat) ==
    \E u \in {Update("start", chat, NULL)} : Deliver(u, 0)

\* The start commands of all chats interleaved at their awaits of network
\* I/O, and the texts and button presses of one chat, which take it
\* through the flow; the clock stands still.
NextStart ==
    \/ \E chat \in Solo : StartCommand(chat)
    \/ \E chat \in Solo : TextMessage(chat)
    \/ \E chat \in Solo : CallbackQuery(chat)
    \/ \E chat \in Applicants : Begin(chat)
    \/ Wake

InitStart == questions \in {CatEmpty} /\ Fresh0

SpecStart == InitStart /\ [][NextStart]_vars

\* An update of the chat arrives while a handler of another chat may be
\* suspended; the chat itself has no handler in progress.
Send(chat) ==
    \E u \in {Update("start", chat, NULL), Update("text", chat, <<"a">>),
              Update("callback", chat, <<"team_yes">>)} :
        /\ TasksOf(chat) = {}
        /\ Deliver(u, 0)

\* The handlers of all chats interleaved at their awaits of network I/O,
\* one handler per chat at a time; the clock stands still.
NextPair ==
    \/ \E chat \in Applicants : Send(chat)
    \/ Wake

InitPair == questions \in {CatPhone} /\ Fresh0

SpecPair == InitPair /\ [][NextPair]_vars

\* The answer u is dispatched while handlers of earlier answers may be
\* suspended, as in Deliver, in a busy period of up to MaxOverlap updates.
Overlap(u, pref) ==
    LET h == Dispatch(u, fsm[u.from].state)
        id == CHOOSE n \in 1..(MaxOverlap + 1) :
                  /\ \A k \in tasks : k.task # n
                  /\ \A m \in 1..(n - 1) : \E k \in tasks : k.task = m
        r == RunToYield(Fresh(u.from),
                        [Frame(h, u, pref, 0) EXCEPT !.task = id])
    IN /\ h \in AnswerHandlers
       /\ tasks = {} \/ Len(race.updates) < MaxOverlap
       /\ Install(r)
       /\ tasks' = IF r.st = "yield" THEN tasks \cup {r.k} ELSE tasks
       /\ last' = Event(r.k, r.st)
       /\ race' = Period(IF tasks = {}
                         THEN [base |-> Store, now |-> now,
                               updates |-> <<[u |-> u, pref |-> pref]>>]
                         ELSE [race EXCEPT
                                  !.updates =
                                      Append(@, [u |-> u, pref |-> pref])],
                         tasks')
       /\ UNCHANGED <<questions, now, walk, failures>>

\* A text or a photo of the chat arrives as an answer while the handlers
\* of its earlier answers may be suspended.
Late(chat) ==
    \E u \in {Update("text", chat, <<"a">>), Update("photo", chat, NULL)} :
        Overlap(u, 0)

\* The chat goes up to the first question: a start command, the button of
\* a team member or the text of the position, handled to its end.
Enter(chat) ==
    \E u \in {Update("start", chat, NULL), Update("text", chat, <<"a">>),
              Update("callback", chat, <<"team_yes">>)} :
        /\ Dispatch(u, fsm[chat].state) \notin AnswerHandlers
        /\ Handle(u, 0, 0)

\* One chat: it enters the flow, and its answers overlap, a slow handler
\* ending after the handlers of later answers; the clock stands still.
NextLate ==
    \/ \E chat \in Solo : Enter(chat)
    \/ \E chat \in Solo : Late(chat)
    \/ Wake

InitLate == questions \in {CatScenario} /\ Fresh0

SpecLate == InitLate /\ [][NextLate]_vars

\* An update of the chat arrives when the chat has no handler in progress;
\* the handler runs to its first await of network I/O.
Post(chat) ==
    \E u \in UpdatesOf(chat), pref \in Prefs :
        /\ TasksOf(chat) = {}
        /\ Deliver(u, pref)

\* One chat, its updates handled one after the other, each handler seen at
\* every await of network I/O; the clock stands still.
NextSteps ==
    \/ \E chat \in Solo : Post(chat)
    \/ Wake

InitSteps == questions \in {CatScenario, CatSnils} /\ Fresh0

SpecSteps == InitSteps /\ [][NextSteps]_vars

----------------------------------------------------------------------------
(* The admin site (django_app/bot_admin/admin.py) writes to the tables the *)
(* bot reads, between two updates.                                         *)

\* The step of the admin site is on record instead of a handler's.
AdminEvent ==
    [h |-> "admin", from |-> 0, text |-> NULL, question_id |-> 0,
     value |-> NULL, next |-> 0, writes |-> 0, st |-> "done",
     rows |-> Len(responses)]

\* QuestionAdmin.list_editable: the box is_active of a question is cleared.
AdminDeactivateQuestion(q) ==
    /\ tasks = {}
    /\ questions[q].is_active
    /\ questions' = [questions EXCEPT ![q].is_active = FALSE]
    /\ last' = AdminEvent
    /\ UNCHANGED <<users, responses, apps, fsm, out, now, tasks, walk,
                   failures, race>>

\* UserProfileAdmin, the delete action: the row of the user goes, and with
\* it the user's responses and application (on_delete = CASCADE).  The FSM
\* storage of the bot is not touched.
AdminDeleteUser(u) ==
    /\ tasks = {}
    /\ Len(users) < MaxUsers
    /\ users[u].telegram_id # -1
    /\ users' = [users EXCEPT ![u] = [c \in DOMAIN @ |->
                                          IF c = "telegram_id" THEN -1
                                          ELSE IF c = "current_question_id"
                                          THEN 0
                                          ELSE FALSE]]
    /\ responses' = [i \in 1..Len(responses) |->
                        IF responses[i].user_id = u
                        THEN [user_id |-> -1, question_id |-> -1,
                              text_answer |-> NULL, photo |-> NULL]
                        ELSE responses[i]]
    /\ apps' = [i \in 1..Len(apps) |->
                   IF apps[i].user_id = u
                   THEN [c \in DOMAIN apps[i] |->
                            IF c = "user_id" THEN -1 ELSE NULL]
                   ELSE apps[i]]
    /\ last' = AdminEvent
    /\ UNCHANGED <<questions, fsm, out, now, tasks, walk, failures, race>>

\* One chat, its updates handled one after the other, and the admin site.
NextAdmin ==
    \/ Next
    \/ \E q \in QIds : AdminDeactivateQuestion(q)
    \/ \E u \in 1..Len(users) : AdminDeleteUser(u)

InitAdmin == questions \in {CatSnils} /\ Fresh0

SpecAdmin == InitAdmin /\ [][NextAdmin]_vars

\* models.py, get_completion_percentage: the fields it counts.
CompletionFields ==
    {"full_name", "address", "phone", "email", "passport_main",
     "passport_registration", "snils", "inn", "marital_status", "children",
     "emergency_contact"}

\* The truth value Python gives a column: None and the empty string are
\* false.
Truthy(v) == v # NULL /\ v # <<>>

\* A rounding of float arithmetic moves a value by less than one part in
\* FloatPrecision (far less, in fact: one part in 2^53).
FloatPrecision == 2 ^ 18

\* int((filled / n) * 100) in float arithmetic, as the set of the values
\* it can have: a quotient that is a whole number is exact and so is its
\* product with 100; any other quotient and its product are rounded, and
\* int() drops the fraction of what the two roundings leave.
FloatPercent(filled, n) ==
    IF filled % n = 0 THEN {(filled \div n) * 100}
    ELSE UNION {{p \in 0..101 : lo < (p + 1) * d /\ p * d <= hi} :
                   lo \in {100 * filled * (FloatPrecision - 1)},
                   hi \in {100 * filled * (FloatPrecision + 1)},
                   d \in {n * FloatPrecision}}

get_completion_percentage_of_all_fields(row) ==
    UNION {FloatPercent(filled, Cardinality(AppFields)) :
              filled \in {Cardinality({f \in AppFields : Truthy(row[f])})}}

get_completion_percentage(row) ==
    UNION {FloatPercent(filled, Cardinality(CompletionFields)) :
              filled \in {Cardinality({f \in CompletionFields :
                                          Truthy(row[f])})}}

\* The columns that can hold the empty string: a cleared image, and the
\* choice that process_choice_answer has stripped to nothing.
BlankableColumns ==
    {"passport_main", "passport_registration", "snils", "inn",
     "marital_status"}

\* The values a column of an application can hold.
ColumnValues(c) ==
    IF c = "status" THEN {<<"in_progress">>, <<"approved">>}
    ELSE IF c \in BlankableColumns THEN {NULL, <<>>, <<"a">>}
    ELSE {NULL, <<"a">>}

\* A row of the table of applications, of user 1: its status st, its
\* blankable columns g and its other columns f.
ApplicationRow(st, g, f) ==
    [c \in AppColumns \cup {"user_id"} |->
        IF c = "user_id" THEN 1
        ELSE IF c = "status" THEN st
        ELSE IF c = "completed_at" THEN NULL
        ELSE IF c \in BlankableColumns THEN g[c]
        ELSE f[c]]

\* StaffApplicationAdmin.completion: the percentage shown in the list.
AdminCompletion(a) ==
    \E pct \in get_completion_percentage(apps[a]) :
        /\ tasks = {}
        /\ last.h # "completion"
        /\ last' = [AdminEvent EXCEPT !.h = "completion",
                                      !.value = <<ToString(pct)>>,
                                      !.text =
                                          IF pct = 100 THEN <<"green">>
                                          ELSE IF pct >= 50 THEN <<"orange">>
                                          ELSE <<"red">>]
        /\ UNCHANGED <<questions, users, responses, apps, fsm, out, now,
                       tasks, walk, failures, race>>

\* The admin site shows the list of applications.
NextForm == \E a \in 1..Len(apps) : AdminCompletion(a)

\* A user and its application, in any state the bot and the admin site can
\* have left it in; the session of the chat is over.
InitForm ==
    /\ questions \in {CatEmpty}
    /\ users = <<[telegram_id |-> 71, current_question_id |-> 0,
                  is_team_member |-> TRUE,
                  is_registration_complete |-> FALSE]>>
    /\ responses = <<>>
    /\ \E st \in ColumnValues("status"),
          g \in [BlankableColumns -> ColumnValues("snils")],
          f \in [(AppFields \cup {"position"}) \ BlankableColumns
                    -> ColumnValues("position")] :
          apps = <<ApplicationRow(st, g, f)>>
    /\ fsm = [c \in Applicants |-> [state |-> "none", data |-> NoData]]
    /\ out = [c \in Applicants |-> <<>>]
    /\ now = 0
    /\ tasks = {}
    /\ last = AdminEvent
    /\ walk = [seq |-> <<>>, done |-> FALSE]
    /\ failures = 0
    /\ race = NoRace

SpecForm == InitForm /\ [][NextForm]_vars

----------------------------------------------------------------------------
(* The traversal of the catalog that the flow performs: get_first_question *)
(* (process_position), then get_next_question with the order of the        *)
(* question returned last (move_to_next_question), until none is returned. *)

RECURSIVE SeqsUpTo(_, _)
SeqsUpTo(set, n) ==
    IF n = 0 THEN {<<>>}
    ELSE LET shorter == SeqsUpTo(set, n - 1)
         IN shorter \cup {Append(t, x) : t \in shorter, x \in set}

\* Every catalog of at most MaxQuestions questions with orders 0..MaxOrder,
\* active or not.
AllCatalogs ==
    SeqsUpTo({Q(ord, "text", "", <<>>, active) :
                 ord \in 0..MaxOrder, active \in BOOLEAN},
             MaxQuestions)

WalkTo(question) ==
    walk' = IF question = 0 THEN [walk EXCEPT !.done = TRUE]
            ELSE [walk EXCEPT !.seq = Append(@, question)]

WalkFirst ==
    /\ walk.seq = <<>> /\ ~walk.done
    /\ \E pref \in Prefs : WalkTo(get_first_question(pref))
    /\ UNCHANGED <<questions, users, responses, apps, fsm, out, now, tasks,
                   last, failures, race>>

WalkNext ==
    /\ walk.seq # <<>> /\ ~walk.done
    /\ \E pref \in Prefs :
          WalkTo(get_next_question(
                     questions[walk.seq[Len(walk.seq)]].order, pref))
    /\ UNCHANGED <<questions, users, responses, apps, fsm, out, now, tasks,
                   last, failures, race>>

InitCatalog == questions \in AllCatalogs /\ Fresh0

NextCatalog == WalkFirst \/ WalkNext

SpecCatalog == InitCatalog /\ [][NextCatalog]_vars

\* The catalogs of one choice question whose choices are any string of at
\* most MaxChoiceLen tokens: letters, the separator, a blank, and the
\* prefix of the callback data.
ChoiceCatalogs ==
    {<<Q(1, "choice", "marital_status", c, TRUE)>> :
        c \in SeqsUpTo({"A", "B", ",", " ", "choice_"}, MaxChoiceLen)}

InitChoice == questions \in ChoiceCatalogs /\ Fresh0

\* The flow of one chat over the catalogs of one choice question.
SpecChoice == InitChoice /\ [][Next]_vars

----------------------------------------------------------------------------
(* Vocabulary of the properties *)

\* The pk of the chat's user row and of that user's application, 0 if none.
UserOf(chat) == get_user(Store, chat)
AppOf(chat) == get_application(Store, UserOf(chat))

\* The question the session of the chat is at.
SessionQuestion(chat) == fsm[chat].data.current_question_id

\* The active questions after order ord, and the first of them.
Followers(ord) == {q \in QIds : questions[q].is_active /\ questions[q].order > ord}
NextCandidates(ord) ==
    {q \in Followers(ord) :
        \A r \in Followers(ord) : questions[q].order <= questions[r].order}

Count(log, kind) == Cardinality({i \in 1..Len(log) : log[i].kind = kind})

RECURSIVE Replay(_, _)
\* The store after the updates of the sequence items are handled from the
\* store S one after the other, each to its end; an update that reaches no
\* handler changes nothing.
Replay(S, items) ==
    IF items = <<>> THEN S
    ELSE LET u == Head(items).u
             h == Dispatch(u, S.fsm[u.from].state)
         IN Replay(IF h = "" THEN S
                   ELSE RunToEnd(S, Frame(h, u, Head(items).pref, 0)).S,
                   Tail(items))

\* The step handles an update of the chat in AnsweringQuestions, alone and
\* to its end, and the answer is accepted: the handler saves it.
AcceptedStep(chat) ==
    /\ now' = now
    /\ tasks = {} /\ tasks' = {}
    /\ fsm[chat].state = "answering_questions"
    /\ last'.from = chat
    /\ last'.h \in AnswerHandlers
    /\ last'.st = "done"
    /\ last'.writes >= 1

\* The same of the state the step leads to.
Accepted(chat) ==
    /\ tasks = {}
    /\ last.from = chat
    /\ last.h \in AnswerHandlers
    /\ last.st = "done"
    /\ last.writes >= 1

\* C1: an accepted answer to q, when an active question of greater order
\* exists, sets current_question_id to the next question q', emits q' (and
\* no other question), leaves the session in AnsweringQuestions at q', and
\* is_registration_complete is false before and after.
C1_AdvanceToNext ==
    [][\A chat \in Applicants :
          LET q == SessionQuestion(chat)
              u == UserOf(chat)
          IN (AcceptedStep(chat) /\ Followers(questions[q].order) # {}) =>
                /\ users'[u].current_question_id
                       \in NextCandidates(questions[q].order)
                /\ out'[chat][Len(out'[chat])].kind = "question"
                /\ out'[chat][Len(out'[chat])].question
                       = users'[u].current_question_id
                /\ Count(out'[chat], "question") = 1
                /\ fsm'[chat].state = "answering_questions"
                /\ fsm'[chat].data.current_question_id
                       = users'[u].current_question_id
                /\ fsm'[chat].data.current_question_order
                       = questions[users'[u].current_question_id].order
                /\ ~users[u].is_registration_complete
                /\ ~users'[u].is_registration_complete]_vars

C1_Witness ==
    \E chat \in Applicants :
        /\ Accepted(chat)
        /\ last.next # 0
        /\ questions[last.next].order > questions[last.question_id].order
        /\ users[UserOf(chat)].current_question_id = last.next
        /\ fsm[chat].state = "answering_questions"

\* C2: an accepted answer to q, when no active question of greater order
\* exists, sets is_registration_complete, clears current_question_id, marks
\* the application completed with completed_at set, emits exactly one
\* completion message and ends the session.
C2_CompleteAtEnd ==
    [][\A chat \in Applicants :
          LET q == SessionQuestion(chat)
              u == UserOf(chat)
              a == AppOf(chat)
          IN (AcceptedStep(chat) /\ Followers(questions[q].order) = {}) =>
                /\ users'[u].is_registration_complete
                /\ users'[u].current_question_id = 0
                /\ a # 0
                /\ apps'[a].status = <<"completed">>
                /\ apps'[a].completed_at = <<ToString(now)>>
                /\ Count(out'[chat], "completion") = 1
                /\ Count(out'[chat], "question") = 0
                /\ fsm'[chat].state = "none"]_vars

C2_Witness ==
    \E chat \in Applicants :
        /\ Accepted(chat)
        /\ last.next = 0
        /\ users[UserOf(chat)].is_registration_complete
        /\ apps[AppOf(chat)].status = <<"completed">>
        /\ out[chat][Len(out[chat])].kind = "completion"

\* C3: a text message while the session's question has type photo is
\* answered with the re-prompt alone; users, responses, applications and
\* the session are unchanged.
C3_TextForPhotoRejected ==
    [][\A chat \in Applicants :
          LET q == SessionQuestion(chat)
          IN (/\ now' = now
              /\ last'.from = chat
              /\ last'.h = "process_text_answer"
              /\ fsm[chat].state = "answering_questions"
              /\ q \in QIds
              /\ questions[q].question_type = "photo") =>
                /\ responses' = responses
                /\ apps' = apps
                /\ users' = users
                /\ fsm' = fsm
                /\ out'[chat] = <<Msg("send_photo_please")>>]_vars

C3_Witness ==
    \E chat \in Applicants :
        /\ last.from = chat
        /\ last.h = "process_text_answer"
        /\ out[chat] = <<Msg("send_photo_please")>>
        /\ fsm[chat].state = "answering_questions"
        /\ questions[SessionQuestion(chat)].question_type = "photo"
        /\ users[UserOf(chat)].current_question_id = SessionQuestion(chat)

\* C4: the response table holds at most one row per (user, question), and
\* after an accepted answer that row holds the value of this answer in its
\* column and NULL in the other.
C4_Upsert ==
    /\ \A i, j \in 1..Len(responses) :
          (/\ responses[i].user_id = responses[j].user_id
           /\ responses[i].question_id = responses[j].question_id) => i = j
    /\ \A chat \in Applicants :
          Accepted(chat) =>
             \E i \in 1..Len(responses) :
                /\ responses[i].user_id = UserOf(chat)
                /\ responses[i].question_id = last.question_id
                /\ IF last.h = "process_photo_answer"
                   THEN /\ responses[i].text_answer = NULL
                        /\ responses[i].photo = last.value
                        /\ last.value # NULL
                   ELSE /\ responses[i].photo = NULL
                        /\ responses[i].text_answer = last.value
                        /\ last.h = "process_text_answer"
                              => last.value = last.text

\* The question was answered before: the answer found its row and the row
\* count did not grow.
C4_Witness ==
    \E chat \in Applicants :
        /\ Accepted(chat)
        /\ last.rows = Len(responses)
        /\ last.h = "process_text_answer"
        /\ last.text = <<"b">>
        /\ Len(responses) >= 2

\* C5: the traversal returns questions of strictly increasing order, no
\* inactive question and no question twice, and when it ends it has
\* returned every active question.
C5_TraversalVisitsAll ==
    /\ \A i, j \in 1..Len(walk.seq) :
          i < j => questions[walk.seq[i]].order < questions[walk.seq[j]].order
    /\ \A i \in 1..Len(walk.seq) : questions[walk.seq[i]].is_active
    /\ walk.done => {walk.seq[i] : i \in 1..Len(walk.seq)} = ActiveQuestions

\* The response row of the answer accepted by the step exists after it.
ResponseWritten(chat) ==
    \E i \in 1..Len(responses') :
        /\ responses'[i].user_id = UserOf(chat)
        /\ responses'[i].question_id = SessionQuestion(chat)
        /\ last'.value \in {responses'[i].text_answer, responses'[i].photo}

\* C6 as stated: after an accepted answer to q, the application column
\* q.field_name holds the answer's value if it is a known field name;
\* otherwise the response is written and the application row is unchanged.
C6_FieldMappingAsStated ==
    [][\A chat \in Applicants :
          LET f == questions[SessionQuestion(chat)].field_name
              a == AppOf(chat)
          IN AcceptedStep(chat) =>
                /\ a # 0
                /\ ResponseWritten(chat)
                /\ f \in AppFields => apps'[a][f] = last'.value
                /\ f \notin AppFields => apps' = apps]_vars

\* C6, amended: as above, but with an unknown field name the answer leaves
\* every column but status and completed_at unchanged, and those two as
\* well unless it is the answer that completes the flow.
C6_FieldMapping ==
    [][\A chat \in Applicants :
          LET q == SessionQuestion(chat)
              f == questions[q].field_name
              a == AppOf(chat)
          IN AcceptedStep(chat) =>
                /\ a # 0
                /\ Len(apps') = Len(apps)
                /\ ResponseWritten(chat)
                /\ f \in AppFields => apps'[a][f] = last'.value
                /\ f \notin AppFields =>
                      /\ \A i \in 1..Len(apps) : \A c \in DOMAIN apps[i] :
                            c \notin {"status", "completed_at"}
                                => apps'[i][c] = apps[i][c]
                      /\ Followers(questions[q].order) # {} => apps' = apps
                /\ \A i \in 1..Len(apps) :
                      /\ apps'[i].position = apps[i].position
                      /\ apps'[i].status # apps[i].status
                            => /\ Followers(questions[q].order) = {}
                               /\ apps'[i].status = <<"completed">>]_vars

\* A photo answer to the passport question has filled the column.
C6_Witness ==
    \E chat \in Applicants :
        /\ Accepted(chat)
        /\ last.h = "process_photo_answer"
        /\ questions[last.question_id].field_name = "passport_main"
        /\ apps[AppOf(chat)].passport_main = last.value
        /\ last.value # NULL

\* C7: once the application of a chat is completed, no step changes its
\* completed_at, and no step emits a further completion message to the
\* chat.
C7_CompletionIdempotent ==
    [][\A chat \in Applicants :
          LET a == AppOf(chat)
          IN (a # 0 /\ apps[a].completed_at # NULL) =>
                /\ apps'[a].completed_at = apps[a].completed_at
                /\ Count(out'[chat], "completion")
                       <= Count(out[chat], "completion")]_vars

\* C8: a start command of a chat whose user has completed the registration
\* emits the already-completed message alone; the session does not enter
\* asking_team_member, and users, responses and applications are unchanged.
C8_ReentryShortCircuits ==
    [][\A chat \in Applicants :
          (/\ now' = now
           /\ tasks = {} /\ tasks' = {}
           /\ last'.from = chat
           /\ last'.h = "cmd_start"
           /\ UserOf(chat) # 0
           /\ users[UserOf(chat)].is_registration_complete) =>
              /\ out'[chat] = <<Msg("already_completed")>>
              /\ fsm'[chat].state = "none"
              /\ users' = users
              /\ responses' = responses
              /\ apps' = apps]_vars

C8_Witness ==
    \E chat \in Applicants :
        /\ last.from = chat
        /\ last.h = "cmd_start"
        /\ users[UserOf(chat)].is_registration_complete
        /\ out[chat] = <<Msg("already_completed")>>
        /\ Len(responses) >= 1

\* C9: while an answer to q is handled, whether or not the storage raises,
\* the answer is written (its handler committed a statement, the first of
\* which is the one of save_response) exactly if the flow has moved on
\* from q: current_question_id has changed or the registration is complete.
C9_WriteAndAdvanceAtomic ==
    [][\A chat \in Applicants :
          LET u == UserOf(chat)
          IN (/\ now' = now
              /\ tasks = {} /\ tasks' = {}
              /\ fsm[chat].state = "answering_questions"
              /\ last'.from = chat
              /\ last'.h \in AnswerHandlers
              /\ u # 0) =>
                (last'.writes >= 1
                    <=> \/ users'[u].current_question_id
                            # users[u].current_question_id
                        \/ users'[u].is_registration_complete)]_vars

\* C10: when the handlers of two answers a chat sent in a row have ended,
\* the users, the responses and the applications are those that handling
\* the two answers one after the other, in one of the two orders, leads to.
C10_Serializable ==
    (/\ tasks = {}
     /\ Len(race.updates) = 2
     /\ now = race.now) =>
        \E first \in 1..2 :
            LET S == Replay(race.base, <<race.updates[first],
                                         race.updates[3 - first]>>)
            IN /\ S.users = users
               /\ S.responses = responses
               /\ S.apps = apps

\* The messages that tell the applicant to start over.
StartOverMessages ==
    {Msg("error_start_over"), Msg("question_not_found"),
     Msg("user_not_found")}

\* The step handles, alone and to its end, an answer of the chat that
\* arrives in answering_questions.
AnswerStep(chat) ==
    /\ now' = now
    /\ tasks = {} /\ tasks' = {}
    /\ fsm[chat].state = "answering_questions"
    /\ last'.from = chat
    /\ last'.h \in AnswerHandlers

\* C11: an answer that arrives in answering_questions when the question of
\* the session is unknown or no longer active is answered with a start-over
\* message alone, the session is reset, and no response and no application
\* is written.
C11_StaleQuestionAborts ==
    [][\A chat \in Applicants :
          LET q == SessionQuestion(chat)
          IN (AnswerStep(chat) /\ (q \notin QIds \/ ~questions[q].is_active))
               => /\ Len(out'[chat]) = 1
                  /\ out'[chat][1] \in StartOverMessages
                  /\ fsm'[chat].state = "none"
                  /\ responses' = responses
                  /\ apps' = apps]_vars

\* C12: an answer that arrives in answering_questions when the sender has
\* no user row ends its handler normally, is answered with a start-over
\* message alone, resets the session, and writes no response and no
\* application.
C12_UnknownApplicantAborts ==
    [][\A chat \in Applicants :
          (AnswerStep(chat) /\ UserOf(chat) = 0)
               => /\ last'.st = "done"
                  /\ Len(out'[chat]) = 1
                  /\ out'[chat][1] \in StartOverMessages
                  /\ fsm'[chat].state = "none"
                  /\ responses' = responses
                  /\ apps' = apps]_vars

\* C13: a position message handled when no question is active ends the
\* session of the chat: the no-questions message is the last one emitted,
\* no question is presented, current_question_id stays NULL and
\* is_registration_complete stays false; and no session is ever in
\* answering_questions while no question is active.
C13_EmptyCatalogTerminates ==
    [][\A chat \in Applicants :
          /\ (fsm'[chat].state = "answering_questions") => ActiveQuestions # {}
          /\ (/\ now' = now
              /\ tasks = {} /\ tasks' = {}
              /\ fsm[chat].state = "asking_position"
              /\ last'.from = chat
              /\ last'.h = "process_position"
              /\ ActiveQuestions = {}) =>
                 LET u == UserOf(chat)
                 IN /\ fsm'[chat].state = "none"
                    /\ out'[chat][Len(out'[chat])] = Msg("no_questions")
                    /\ Count(out'[chat], "question") = 0
                    /\ users'[u].current_question_id = 0
                    /\ ~users'[u].is_registration_complete]_vars

C13_Witness ==
    \E chat \in Applicants :
        /\ ActiveQuestions = {}
        /\ last.from = chat
        /\ last.h = "process_position"
        /\ last.st = "done"
        /\ AppOf(chat) # 0
        /\ fsm[chat].state = "none"
        /\ Count(out[chat], "no_questions") = 1

\* The number of separators in a string of choices.
Commas(choices) == Cardinality({i \in 1..Len(choices) : choices[i] = ","})

\* C14: the selector rendered for a choice question has one option per
\* configured choice, and a selection of one of its options, made while the
\* selector is the last message, stores the label of the option, as it is
\* rendered, as the text_answer of the response and in the mapped column
\* of the application.
C14_ChoiceRoundTrip ==
    [][\A chat \in Applicants :
          LET q == SessionQuestion(chat)
              u == UserOf(chat)
              m == out[chat][Len(out[chat])]
          IN (/\ AnswerStep(chat)
              /\ last'.h = "process_choice_answer"
              /\ out[chat] # <<>>
              /\ m.kind = "question" /\ m.question = q
              /\ questions[q].question_type = "choice"
              /\ questions[q].choices # <<>>) =>
                /\ Len(m.buttons) = Commas(questions[q].choices) + 1
                /\ \A i \in 1..Len(m.buttons) :
                      last'.text = m.buttons[i].callback_data =>
                        /\ \E r \in 1..Len(responses') :
                              /\ responses'[r].user_id = u
                              /\ responses'[r].question_id = q
                              /\ responses'[r].text_answer = m.buttons[i].text
                        /\ apps'[AppOf(chat)][questions[q].field_name]
                               = m.buttons[i].text]_vars

\* The shape of the answer handler h receives does not match the type of
\* the question q: a text for a photo question, a photo for a text or a
\* choice question, a selection for a question that is no choice question.
ShapeMismatch(h, q) ==
    \/ h = "process_text_answer" /\ questions[q].question_type = "photo"
    \/ h = "process_photo_answer"
          /\ questions[q].question_type \in {"text", "choice"}
    \/ h = "process_choice_answer" /\ questions[q].question_type # "choice"

\* C15: an answer whose shape does not match the type of the question of
\* the session is answered with one message, which is no question, and
\* changes neither the users, the responses, the applications nor the
\* session.
C15_MismatchRePrompts ==
    [][\A chat \in Applicants :
          LET q == SessionQuestion(chat)
          IN (/\ AnswerStep(chat)
              /\ q \in QIds
              /\ ShapeMismatch(last'.h, q)) =>
                /\ Len(out'[chat]) = 1
                /\ out'[chat][1].kind \notin {"question", "completion"}
                /\ users' = users
                /\ responses' = responses
                /\ apps' = apps
                /\ fsm' = fsm]_vars

\* The step dispatches an update: it finds no handler suspended, or it adds
\* an update to the busy period.
DispatchStep ==
    tasks = {} \/ Len(race'.updates) > Len(race.updates)

\* The responses of user u, by question.
ResponsesOf(rows, u) ==
    {<<rows[i].question_id, rows[i].text_answer, rows[i].photo>> :
        i \in {j \in 1..Len(rows) : rows[j].user_id = u}}

\* C16: no update dispatched when the user of the chat has completed the
\* registration changes the row of the user, the responses of the user or
\* the application of the user; is_registration_complete stays true.
C16_CompletedTerminal ==
    [][\A chat \in Applicants :
          LET u == UserOf(chat)
              a == AppOf(chat)
          IN (/\ DispatchStep
              /\ u # 0
              /\ users[u].is_registration_complete) =>
                /\ users'[u] = users[u]
                /\ ResponsesOf(responses', u) = ResponsesOf(responses, u)
                /\ a # 0 => apps'[a] = apps[a]]_vars

\* C17: a team-member selection handled in asking_team_member stores the
\* chosen value in is_team_member; for a member the session moves to
\* asking_position; for anyone else the session ends,
\* is_registration_complete is false and no application is created or
\* changed.
C17_TeamMemberSelection ==
    [][\A chat \in Applicants :
          LET u == UserOf(chat)
          IN (/\ now' = now
              /\ tasks = {} /\ tasks' = {}
              /\ fsm[chat].state = "asking_team_member"
              /\ last'.from = chat
              /\ last'.h = "process_team_member") =>
                /\ users'[u].is_team_member = (last'.text = <<"team_yes">>)
                /\ last'.text = <<"team_yes">> =>
                       fsm'[chat].state = "asking_position"
                /\ last'.text # <<"team_yes">> =>
                       /\ fsm'[chat].state = "none"
                       /\ ~users'[u].is_registration_complete
                       /\ apps' = apps]_vars

C17_Witness ==
    \E chat \in Applicants :
        /\ last.from = chat
        /\ last.h = "process_team_member"
        /\ last.text = <<"team_no">>
        /\ AppOf(chat) # 0
        /\ ~users[UserOf(chat)].is_team_member
        /\ fsm[chat].state = "none"

\* The applications of user u.
AppsOf(rows, u) == {i \in 1..Len(rows) : rows[i].user_id = u}

\* C18: process_position runs for a free-text message only; after it the
\* user has one application, created with status in_progress if there was
\* none, whose position is the text received, and when a question is active
\* current_question_id is a first question and the session is in
\* answering_questions at it.  No other step creates an application, and
\* no user ever has two.
C18_PositionTransition ==
    [][\A chat \in Applicants :
          LET u == UserOf(chat)
          IN /\ (Len(apps') > Len(apps)) => last'.h = "process_position"
             /\ \A v \in 1..Len(users') : Cardinality(AppsOf(apps', v)) <= 1
             /\ (/\ now' = now
                 /\ tasks = {} /\ tasks' = {}
                 /\ fsm[chat].state = "asking_position"
                 /\ last'.from = chat
                 /\ last'.h = "process_position") =>
                   /\ last'.text \in Texts
                   /\ Cardinality(AppsOf(apps', u)) = 1
                   /\ \A a \in AppsOf(apps', u) :
                         /\ apps'[a].position = last'.text
                         /\ AppsOf(apps, u) = {} =>
                                apps'[a].status = <<"in_progress">>
                         /\ AppsOf(apps, u) # {} => a \in AppsOf(apps, u)
                   /\ ActiveQuestions # {} =>
                         /\ users'[u].current_question_id
                                \in NextCandidates(-1)
                         /\ fsm'[chat].state = "answering_questions"
                         /\ fsm'[chat].data.current_question_id
                                = users'[u].current_question_id]_vars

\* The rows of the users with the Telegram id chat.
UsersOf(rows, chat) == {i \in 1..Len(rows) : rows[i].telegram_id = chat}

\* C19: no step removes a user row or changes its Telegram id, and no two
\* rows have the same Telegram id; a step of cmd_start leaves every row
\* that exists as it is, and after it the chat has exactly one row.
C19_OneUserPerChat ==
    [][/\ Len(users') >= Len(users)
       /\ \A i \in 1..Len(users) :
             users'[i].telegram_id = users[i].telegram_id
       /\ \A chat \in Applicants : Cardinality(UsersOf(users', chat)) <= 1
       /\ (last'.h = "cmd_start" /\ now' = now) =>
             /\ \A i \in 1..Len(users) : users'[i] = users[i]
             /\ Cardinality(UsersOf(users', last'.from)) = 1]_vars

C19_Witness ==
    \E chat \in Applicants :
        /\ Len(race.updates) = 2
        /\ race.updates[1].u.from # race.updates[2].u.from
        /\ last.h = "cmd_start"
        /\ last.from = chat
        /\ users[UserOf(chat)].is_team_member
        /\ AppOf(chat) # 0
        /\ Len(users) = 2

\* q is a question of the least order among the questions of cands, none
\* if cands is empty.
LeastOf(q, cands) ==
    IF cands = {} THEN q = 0
    ELSE /\ q \in cands
         /\ \A r \in cands : questions[q].order <= questions[r].order

\* C20: get_first_question returns an active question of the least order,
\* none if no question is active; get_next_question returns an active
\* question of the least order above the order given, none if there is
\* none; the questions a traversal returns are active.
C20_FirstAndNext ==
    /\ \A pref \in Prefs :
          /\ LeastOf(get_first_question(pref),
                     {q \in QIds : questions[q].is_active})
          /\ \A after \in 0..MaxOrder :
                LeastOf(get_next_question(after, pref),
                        {q \in QIds : /\ questions[q].is_active
                                      /\ questions[q].order > after})
    /\ \A i \in 1..Len(walk.seq) :
          /\ questions[walk.seq[i]].is_active
          /\ i > 1 => LeastOf(walk.seq[i],
                              {q \in QIds :
                                  /\ questions[q].is_active
                                  /\ questions[q].order
                                        > questions[walk.seq[i - 1]].order})

C20_Witness ==
    /\ walk.done
    /\ Len(walk.seq) = 2
    /\ \E q \in QIds :
          /\ ~questions[q].is_active
          /\ questions[q].order > questions[walk.seq[1]].order
          /\ questions[q].order < questions[walk.seq[2]].order

\* Exactly one of the two answer columns of the response row is set.
OneAnswer(row) == (row.text_answer # NULL) # (row.photo # NULL)

\* C21: every response row has exactly one of text_answer and photo set,
\* before and after every step; an accepted answer that finds the row of
\* its question with the column of the other kind set leaves the row with
\* the column of its own kind set alone.
C21_TextXorPhoto ==
    [][/\ \A i \in 1..Len(responses) : OneAnswer(responses[i])
       /\ \A i \in 1..Len(responses') : OneAnswer(responses'[i])
       /\ \A chat \in Applicants :
             AcceptedStep(chat) =>
                \A i \in 1..Len(responses) :
                   (/\ responses[i].user_id = UserOf(chat)
                    /\ responses[i].question_id = last'.question_id) =>
                      IF last'.h = "process_photo_answer"
                      THEN /\ responses'[i].photo # NULL
                           /\ responses'[i].text_answer = NULL
                      ELSE /\ responses'[i].text_answer # NULL
                           /\ responses'[i].photo = NULL]_vars

\* A photo has replaced the answer of a text question that was answered
\* before.
C21_Witness ==
    \E chat \in Applicants :
        /\ Accepted(chat)
        /\ last.h = "process_photo_answer"
        /\ last.rows = Len(responses)
        /\ questions[last.question_id].question_type = "text"
        /\ \E i \in 1..Len(responses) :
              /\ responses[i].question_id = last.question_id
              /\ responses[i].photo = last.value
              /\ responses[i].text_answer = NULL

\* C22: the current_question_id of a user is set only while the session of
\* the user's chat is in answering_questions.
C22_CurrentQuestionOnlyWhileAnswering ==
    \A chat \in Applicants :
        (tasks = {} /\ UserOf(chat) # 0
            /\ users[UserOf(chat)].current_question_id # 0)
          => fsm[chat].state = "answering_questions"

\* What the program holds of a chat: the row of its user, the responses and
\* the applications of that user, and the session.
Holdings(S, chat) ==
    LET u == get_user(S, chat)
    IN [user |-> IF u = 0 THEN <<>> ELSE <<S.users[u]>>,
        responses |-> ResponsesOf(S.responses, u),
        apps |-> {S.apps[a] : a \in AppsOf(S.apps, u)},
        fsm |-> S.fsm[chat]]

\* C23: a step of a handler of one chat leaves the user row, the responses,
\* the application and the session of every other chat as they are,
\* whatever handlers are suspended.
C23_ApplicantsIndependent ==
    [][\A b \in Applicants :
          last'.from # b =>
              Holdings([Store EXCEPT !.users = users',
                                     !.responses = responses',
                                     !.apps = apps', !.fsm = fsm'], b)
                  = Holdings(Store, b)]_vars

C23_Witness ==
    \E k \in tasks :
        /\ k.from # last.from
        /\ k.h = "process_position"
        /\ last.h = "process_text_answer"
        /\ last.st = "done"
        /\ Len(responses) = 1
        /\ Len(apps) = 2
        /\ users[UserOf(last.from)].is_registration_complete
        /\ ~users[UserOf(k.from)].is_registration_complete

\* Message m presents a question whose field_name is field.
Presents(m, field) ==
    m.kind = "question" /\ questions[m.question].field_name = field

\* C24: in what a handler sends, the question with field_name "snils" comes
\* right after the values message, and the values message is followed at
\* once by that question.
C24_ValuesBeforeSnils ==
    \A chat \in Applicants :
        tasks = {} =>
            \A i \in 1..Len(out[chat]) :
                /\ Presents(out[chat][i], "snils") =>
                       (i > 1 /\ out[chat][i - 1] = Msg("values"))
                /\ out[chat][i] = Msg("values") =>
                       (i < Len(out[chat])
                           /\ Presents(out[chat][i + 1], "snils"))

\* The response row of the answer the handler of the last step holds.
Recorded(chat) ==
    \E i \in 1..Len(responses) :
        /\ responses[i].user_id = UserOf(chat)
        /\ responses[i].question_id = last.question_id
        /\ last.value \in {responses[i].text_answer, responses[i].photo}

\* C25: a handler sends the goal message only when it has recorded an
\* answer to the question with field_name "full_name" and a next question
\* exists, and before it has presented any question; and a handler that
\* has answered that question presents the next one only after the goal
\* message.
C25_GoalAfterFullName ==
    \A chat \in Applicants :
        \A i \in 1..Len(out[chat]) :
            /\ out[chat][i] = Msg("goal") =>
                  /\ last.h \in AnswerHandlers
                  /\ questions[last.question_id].field_name = "full_name"
                  /\ last.next # 0
                  /\ Recorded(chat)
                  /\ \A j \in 1..(i - 1) : out[chat][j].kind # "question"
            /\ (/\ out[chat][i].kind = "question"
                /\ last.h \in AnswerHandlers
                /\ last.question_id \in QIds
                /\ questions[last.question_id].field_name = "full_name") =>
                  \E j \in 1..(i - 1) : out[chat][j] = Msg("goal")

\* The handler is suspended between the goal message and the next question.
C25_Witness ==
    \E chat \in Applicants :
        /\ out[chat] = <<Msg("goal")>>
        /\ TasksOf(chat) # {}
        /\ last.st = "yield"
        /\ Recorded(chat)
        /\ users[UserOf(chat)].current_question_id = last.question_id

\* The number of the eleven fields of the row that hold a value.
Filled(row) ==
    Cardinality({f \in AppFields \ {"additional_info"} :
                    row[f] \notin {NULL, <<>>}})

\* C26: the completion percentage of an application is
\* floor(filled * 100 / 11), filled being the number of the eleven fields
\* that are not empty, whatever position, additional_info and status hold;
\* it lies in 0..100 and is 100 exactly when all eleven are filled; the
\* list of the admin site shows this number.
C26_CompletionPercentage ==
    \A a \in 1..Len(apps) :
        \A pcts \in {get_completion_percentage(apps[a])} :
            \A filled \in {Filled(apps[a])} :
                /\ pcts = {(filled * 100) \div 11}
                /\ \A p \in pcts : p \in 0..100 /\ (p = 100 <=> filled = 11)
                /\ last.h = "completion" =>
                       last.value = <<ToString((filled * 100) \div 11)>>

C26_Witness ==
    /\ last.h = "completion"
    /\ last.value = <<"90">>
    /\ Len(apps) = 1
    /\ Filled(apps[1]) = 10
    /\ apps[1].snils # NULL
    /\ apps[1].marital_status = <<>>
    /\ apps[1].additional_info # NULL
    /\ apps[1].status = <<"approved">>

\* C27: in answering_questions at a question q, a photo and a callback
\* query are accepted whatever the type of q is, and a text is accepted
\* when the type of q is text or choice; an accepted answer is written to
\* the response of (user, q) and the flow moves on to the next question or
\* to completion.
C27_AnswersAccepted ==
    [][\A chat \in Applicants :
          LET q == SessionQuestion(chat)
              u == UserOf(chat)
          IN (/\ AnswerStep(chat)
              /\ q \in QIds
              /\ u # 0
              /\ \/ last'.h \in {"process_photo_answer",
                                  "process_choice_answer"}
                 \/ questions[q].question_type \in {"text", "choice"}) =>
                /\ last'.st = "done"
                /\ last'.writes >= 1
                /\ ResponseWritten(chat)
                /\ IF Followers(questions[q].order) # {}
                   THEN /\ users'[u].current_question_id
                               \in NextCandidates(questions[q].order)
                        /\ fsm'[chat].state = "answering_questions"
                        /\ fsm'[chat].data.current_question_id
                               = users'[u].current_question_id
                   ELSE /\ users'[u].is_registration_complete
                        /\ users'[u].current_question_id = 0
                        /\ fsm'[chat].state = "none"]_vars

\* A button of the team-member keyboard pressed at a photo question.
C27_Witness ==
    \E chat \in Applicants :
        /\ Accepted(chat)
        /\ last.h = "process_choice_answer"
        /\ last.text = <<"team_yes">>
        /\ questions[last.question_id].question_type = "photo"
        /\ last.next # 0
        /\ users[UserOf(chat)].current_question_id = last.next
        /\ \E i \in 1..Len(responses) :
              /\ responses[i].question_id = last.question_id
              /\ responses[i].text_answer = <<"team_yes">>

\* C28: no session waits for an answer at a question of type info, and no
\* response is recorded for one.
C28_InfoNotAwaited ==
    /\ \A chat \in Applicants :
          (/\ tasks = {}
           /\ fsm[chat].state = "answering_questions"
           /\ SessionQuestion(chat) \in QIds) =>
              questions[SessionQuestion(chat)].question_type # "info"
    /\ \A i \in 1..Len(responses) :
          responses[i].question_id \in QIds =>
              questions[responses[i].question_id].question_type # "info"

\* C29: when the session of a chat is in answering_questions and no handler
\* is in progress, the current_question_id of the session is the
\* current_question_id of the user of the chat.
C29_SessionMatchesRow ==
    \A chat \in Applicants :
        (tasks = {} /\ fsm[chat].state = "answering_questions") =>
            /\ UserOf(chat) # 0
            /\ SessionQuestion(chat)
                   = users[UserOf(chat)].current_question_id

\* The flow was started over and is at a question again, after a text was
\* turned away.
C29_Witness ==
    \E chat \in Applicants :
        /\ tasks = {}
        /\ fsm[chat].state = "answering_questions"
        /\ last.h = "process_text_answer"
        /\ out[chat] = <<Msg("send_photo_please")>>
        /\ Len(responses) >= 1
        /\ SessionQuestion(chat) = 1
        /\ users[UserOf(chat)].current_question_id = 1

\* C30: in every state, a handler suspended or not, a user whose
\* is_registration_complete is set has no current_question_id, the session
\* of its chat is not in answering_questions, and it has an application
\* with status completed and completed_at set.
C30_CompleteMeansDone ==
    \A chat \in Applicants :
        (/\ UserOf(chat) # 0
         /\ users[UserOf(chat)].is_registration_complete) =>
            /\ users[UserOf(chat)].current_question_id = 0
            /\ fsm[chat].state # "answering_questions"
            /\ AppOf(chat) # 0
            /\ apps[AppOf(chat)].status = <<"completed">>
            /\ apps[AppOf(chat)].completed_at # NULL

\* C31: a step of an answer handler that finds current_question_id at a
\* question and leaves it at a question does not take it to a question of
\* a lesser order, whatever handlers are suspended.
C31_OrderNeverDecreases ==
    [][\A chat \in Applicants :
          LET u == UserOf(chat)
          IN (/\ u # 0
              /\ last'.from = chat
              /\ last'.h \in AnswerHandlers
              /\ users[u].current_question_id # 0
              /\ users'[u].current_question_id # 0) =>
                questions[users'[u].current_question_id].order
                    >= questions[users[u].current_question_id].order]_vars

\* The answer a response row holds: the photo if there is one, else the
\* text.
AnswerOf(row) == IF row.photo # NULL THEN row.photo ELSE row.text_answer

\* The responses of user u to the questions whose field_name is f.
ResponsesTo(u, f) ==
    {i \in 1..Len(responses) :
        /\ responses[i].user_id = u
        /\ responses[i].question_id \in QIds
        /\ questions[responses[i].question_id].field_name = f}

\* C32: for every user and every field name f of the whitelist, when the
\* user has responses to questions with field_name f, the user has an
\* application and its column f holds the answer of one of them (of the
\* only one, when one question has that field_name).
C32_LogAgreesWithApplication ==
    \A chat \in Applicants :
        \A f \in AppFields :
            LET u == UserOf(chat)
                a == AppOf(chat)
            IN (u # 0 /\ ResponsesTo(u, f) # {}) =>
                  /\ a # 0
                  /\ \E i \in ResponsesTo(u, f) :
                         apps[a][f] = AnswerOf(responses[i])

\* C33: a user whose is_registration_complete is set has a response to
\* every active question.
C33_CompleteMeansAllAnswered ==
    \A chat \in Applicants :
        LET u == UserOf(chat)
        IN (u # 0 /\ users[u].is_registration_complete) =>
              \A q \in ActiveQuestions :
                  \E i \in 1..Len(responses) :
                      /\ responses[i].user_id = u
                      /\ responses[i].question_id = q

\* Handler h takes the kind of answer that a question of type ty asks for.
ExpectedShape(ty, h) ==
    \/ ty = "photo" /\ h = "process_photo_answer"
    \/ ty = "text" /\ h = "process_text_answer"
    \/ ty = "choice" /\ h = "process_choice_answer"
    \/ ty = "info"

\* C34: an answer of the expected shape to the question of the session is
\* accepted and takes the flow on; a text turned away at a photo question
\* changes nothing; and the step that completes the registration of a user
\* leaves it with as many responses as there are active questions.
C34_CompletesAfterAllAnswers ==
    [][\A chat \in Applicants :
          LET q == SessionQuestion(chat)
              u == UserOf(chat)
          IN (AnswerStep(chat) /\ q \in QIds /\ u # 0) =>
                /\ ExpectedShape(questions[q].question_type, last'.h) =>
                       /\ last'.writes >= 1
                       /\ \/ users'[u].is_registration_complete
                          \/ users'[u].current_question_id
                                 # users[u].current_question_id
                /\ last'.writes = 0 =>
                       /\ users' = users
                       /\ responses' = responses
                       /\ fsm' = fsm
                /\ (/\ ~users[u].is_registration_complete
                    /\ users'[u].is_registration_complete) =>
                       Cardinality({i \in 1..Len(responses') :
                                       responses'[i].user_id = u})
                           = Cardinality(ActiveQuestions)]_vars

====
